---- MODULE Spec2Model ----
(***************************************************************************)
(* Model of src/几何与拓扑/喵喵喵/扭结的随机生成.py: the construction of a  *)
(* Knot from a PD code (build_graph, calculate_positions, trace_path), the *)
(* point sequence of Knot.draw, generate_knot_pair and the loop of main.   *)
(*                                                                         *)
(* Python sequences are 0-indexed, TLA+ sequences 1-indexed: the source's  *)
(* cross[k] is written Item(cross, k).  The identifiers of a PD code are   *)
(* only ever compared for equality and hashed by the code, so the          *)
(* generated PD codes are enumerated up to renaming (CanonicalFrom); the   *)
(* order in which a Python set of them is iterated is left open.           *)
(***************************************************************************)
EXTENDS Integers, Sequences, FiniteSets, TLC

\* Bounds: the identifiers and the crossings of a generated PD code, and the
\* rounds of the quiz that are scored.
MaxArc == 6
MaxCross == 2
MaxRounds == 3

VARIABLES
    \* ---- one Knot under construction (Knot.__init__, Knot.draw)
    pc,          \* position in __init__ / draw
    name,        \* self.name
    pd_code,     \* self.pd_code
    crossings,   \* self.crossings
    graph,       \* build_graph's G, then self.graph:
                 \* [nodes |-> set, adj |-> node -> neighbours in insertion order]
    cross_index, \* build_graph's place in `for cross in self.pd_code` (line 32)
    positions,   \* self.positions
    path,        \* trace_path's local path, then self.path
    visited,     \* trace_path's local visited
    current,     \* trace_path's local current
    points,      \* draw's local points
    raised,      \* the exception that left the constructor, or "none"
    \* ---- the loop of main
    qpc,         \* position in main
    score, total,
    knot1, knot2, equivalent,
    user_input,  \* input(...).strip().lower()
    console      \* kind of the last message printed by the loop

knotVars == <<pc, name, pd_code, crossings, graph, cross_index, positions, path, visited,
              current, points, raised>>
quizVars == <<qpc, score, total, knot1, knot2, equivalent, user_input, console>>
vars == <<pc, name, pd_code, crossings, graph, cross_index, positions, path, visited,
          current, points, raised, qpc, score, total, knot1, knot2,
          equivalent, user_input, console>>

----------------------------------------------------------------------------
\* Sequence helpers (Python's `in`, indexing and list comprehension).

Range(s) == {s[i] : i \in DOMAIN s}

InSeq(x, s) == \E i \in DOMAIN s : s[i] = x

HasItem(s, k) == (k + 1) \in DOMAIN s

Item(s, k) == s[k + 1]

Last(s) == s[Len(s)]

\* Python's None, and a value bound to no object yet.
None == <<>>

----------------------------------------------------------------------------
\* KNOT_DEFINITIONS

\* A dataset in which the crossings of the trefoil share their arcs.
KNOT_DEFINITIONS_shared ==
    [ Unknot |-> << <<1, 2, 3, 4>> >>,
      Trefoil |-> << <<1, 4, 2, 5>>, <<3, 6, 4, 1>>, <<5, 2, 6, 3>> >>,
      FigureEight |-> << <<1, 2, 3, 4>>, <<5, 6, 7, 8>>, <<9, 10, 11, 12>>,
                         <<13, 14, 15, 16>> >>,
      Cinquefoil |-> << <<1, 2, 3, 4>> >>,
      K6_1 |-> << <<1, 2, 3, 4>> >>,
      K7_4 |-> << <<1, 2, 3, 4>> >>,
      K8_19 |-> << <<1, 2, 3, 4>> >>,
      K9_42 |-> << <<1, 2, 3, 4>> >>,
      K10_161 |-> << <<1, 2, 3, 4>> >> ]

KNOT_DEFINITIONS ==
    [ Unknot |-> << <<1, 2, 3, 4>> >>,
      Trefoil |-> << <<1, 2, 3, 4>>, <<5, 6, 7, 8>>, <<9, 10, 11, 12>> >>,
      FigureEight |-> << <<1, 2, 3, 4>>, <<5, 6, 7, 8>>, <<9, 10, 11, 12>>,
                         <<13, 14, 15, 16>> >>,
      Cinquefoil |-> << <<1, 2, 3, 4>>, <<5, 6, 7, 8>>, <<9, 10, 11, 12>>,
                        <<13, 14, 15, 16>>, <<17, 18, 19, 20>> >>,
      K6_1 |-> << <<1, 2, 3, 4>>, <<5, 6, 7, 8>>, <<9, 10, 11, 12>>,
                  <<13, 14, 15, 16>>, <<17, 18, 19, 20>>, <<21, 22, 23, 24>> >>,
      K7_4 |-> << <<1, 2, 3, 4>>, <<5, 6, 7, 8>>, <<9, 10, 11, 12>>,
                  <<13, 14, 15, 16>>, <<17, 18, 19, 20>>, <<21, 22, 23, 24>>,
                  <<25, 26, 27, 28>> >>,
      K8_19 |-> << <<1, 2, 3, 4>>, <<5, 6, 7, 8>>, <<9, 10, 11, 12>>,
                   <<13, 14, 15, 16>>, <<17, 18, 19, 20>>, <<21, 22, 23, 24>>,
                   <<25, 26, 27, 28>>, <<29, 30, 31, 32>> >>,
      K9_42 |-> << <<1, 2, 3, 4>>, <<5, 6, 7, 8>>, <<9, 10, 11, 12>>,
                   <<13, 14, 15, 16>>, <<17, 18, 19, 20>>, <<21, 22, 23, 24>>,
                   <<25, 26, 27, 28>>, <<29, 30, 31, 32>>, <<33, 34, 35, 36>> >>,
      K10_161 |-> << <<1, 2, 3, 4>>, <<5, 6, 7, 8>>, <<9, 10, 11, 12>>,
                     <<13, 14, 15, 16>>, <<17, 18, 19, 20>>, <<21, 22, 23, 24>>,
                     <<25, 26, 27, 28>>, <<29, 30, 31, 32>>, <<33, 34, 35, 36>>,
                     <<37, 38, 39, 40>> >> ]

KnotNames == DOMAIN KNOT_DEFINITIONS

----------------------------------------------------------------------------
\* Knot.build_graph

\* The node set without the identifiers of the last crossing.
all_arcs_skip_last(pd) == UNION {Range(pd[i]) : i \in 1..(Len(pd) - 1)}

\* The set all_arcs: every identifier of every crossing, whatever its length.
all_arcs(pd) == UNION {Range(pd[i]) : i \in DOMAIN pd}

\* The cyclic boundary without the two diagonals.
EdgeCalls_cycle_only == << <<0, 1>>, <<1, 2>>, <<2, 3>>, <<3, 0>> >>

\* The six add_edge calls of one crossing, in source order, as index pairs.
EdgeCalls == << <<0, 1>>, <<1, 2>>, <<2, 3>>, <<3, 0>>, <<0, 2>>, <<1, 3>> >>

\* nx.Graph.add_edge on nodes already present: each end is entered in the
\* other's adjacency mapping, which keeps the first insertion's place.
add_edge(adj, u, v) ==
    LET a1 == [adj EXCEPT ![u] = IF InSeq(v, @) THEN @ ELSE Append(@, v)]
    IN  [a1 EXCEPT ![v] = IF InSeq(u, @) THEN @ ELSE Append(@, u)]

RECURSIVE add_cross_edges(_, _, _)
add_cross_edges(adj, cross, k) ==
    IF k > Len(EdgeCalls) THEN adj
    ELSE add_cross_edges(add_edge(adj, Item(cross, EdgeCalls[k][1]),
                                       Item(cross, EdgeCalls[k][2])),
                         cross, k + 1)

\* cross[k] raises IndexError when the tuple is too short for an add_edge call.
cross_raises(cross) ==
    \E k \in DOMAIN EdgeCalls :
        ~HasItem(cross, EdgeCalls[k][1]) \/ ~HasItem(cross, EdgeCalls[k][2])

\* G after G.add_nodes_from(all_arcs): the nodes, no edge yet.
graph_of_nodes(arcs) == [nodes |-> arcs, adj |-> [a \in arcs |-> <<>>]]

NoGraph == [nodes |-> {}, adj |-> <<>>]

\* graph.neighbors(n), in iteration order.
neighbors(g, n) == g.adj[n]

\* The undirected edges of a graph, self-loops as singletons.
EdgeSet(g) == UNION {{{u, v} : v \in Range(neighbors(g, u))} : u \in g.nodes}

----------------------------------------------------------------------------
\* Knot.calculate_positions: crossing i of n sits at angle i * 2*pi / n on the
\* circle of radius 1.5; a point is written <<i, n>>.

calculate_positions(n) == [i \in 1..n |-> <<i - 1, n>>]

----------------------------------------------------------------------------
\* Knot.trace_path

\* A filter that tests against the current node, not against visited.
unvisited_not_current(g, cur, vis) ==
    LET notCurrent(n) == n # cur
    IN  SelectSeq(neighbors(g, cur), notCurrent)

\* unvisited = [n for n in neighbors if n not in visited]
unvisited(g, cur, vis) ==
    LET notVisited(n) == n \notin vis
    IN  SelectSeq(neighbors(g, cur), notVisited)

\* A closing step that appends path[0] whatever the last node is.
close_path_always(g, p) == Append(p, p[1])

\* The closing step: path[0] is appended when it is a neighbour of path[-1].
close_path(g, p) ==
    IF InSeq(p[1], neighbors(g, Last(p))) THEN Append(p, p[1]) ELSE p

----------------------------------------------------------------------------
\* Knot.get_arc_position and the point sequence of Knot.draw

RECURSIVE arc_position_from(_, _, _, _)
arc_position_from(pd, pos, arc, i) ==
    IF i > Len(pd) THEN None
    ELSE IF InSeq(arc, pd[i]) THEN pos[i]
    ELSE arc_position_from(pd, pos, arc, i + 1)

\* A lookup that keeps the last crossing holding the arc, not the first.
RECURSIVE arc_position_last(_, _, _, _)
arc_position_last(pd, pos, arc, i) ==
    IF i < 1 THEN None
    ELSE IF InSeq(arc, pd[i]) THEN pos[i]
    ELSE arc_position_last(pd, pos, arc, i - 1)

get_arc_position_last(pd, pos, arc) == arc_position_last(pd, pos, arc, Len(pd))

get_arc_position(pd, pos, arc) == arc_position_from(pd, pos, arc, 1)

\* `if pos:` is the truth value of a tuple: false for None only, since a
\* position is a pair.
Truthy(pos) == pos # None

RECURSIVE draw_points(_, _, _, _)
draw_points(pd, pos, p, k) ==
    IF k > Len(p) THEN <<>>
    ELSE LET q == get_arc_position(pd, pos, p[k])
         IN  IF Truthy(q) THEN <<q>> \o draw_points(pd, pos, p, k + 1)
             ELSE draw_points(pd, pos, p, k + 1)

----------------------------------------------------------------------------
\* The PD codes the constructor is run on.

Arcs == 1..MaxArc

Max(a, b) == IF a > b THEN a ELSE b

\* Identifiers are named in order of first appearance: after identifiers 1..m
\* the next new one is m + 1.  Returns the largest identifier used, or -1.
RECURSIVE CanonicalFrom(_, _, _)
CanonicalFrom(t, k, m) ==
    IF k > Len(t) THEN m
    ELSE IF t[k] > m + 1 THEN -1
    ELSE CanonicalFrom(t, k + 1, Max(m, t[k]))

Distinct(t) == \A i \in DOMAIN t : \A j \in DOMAIN t : i # j => t[i] # t[j]

\* Well-formed crossings: 4-tuples of pairwise distinct identifiers.
Quads == {t \in [1..4 -> Arcs] : Distinct(t)}

RECURSIVE LargestId(_, _)
LargestId(pd, i) ==
    IF i > Len(pd) THEN 0
    ELSE Max(LargestId(pd, i + 1),
             CHOOSE m \in Range(pd[i]) : \A x \in Range(pd[i]) : x <= m)

\* The crossings of pd that hold arc a.
CrossingsOf(pd, a) == {i \in DOMAIN pd : InSeq(a, pd[i])}

\* The codes of at most n well-formed crossings in which an arc joins at most
\* two crossings.
RECURSIVE WellFormedCodes(_)
WellFormedCodes(n) ==
    IF n = 0 THEN {<<>>}
    ELSE LET prev == WellFormedCodes(n - 1)
         IN  prev \cup
             {Append(ct[1], ct[2]) : ct \in
                 {ct \in {c \in prev : Len(c) = n - 1} \X Quads :
                     /\ CanonicalFrom(ct[2], 1, LargestId(ct[1], 1)) >= 0
                     /\ \A a \in Range(ct[2]) :
                           Cardinality(CrossingsOf(ct[1], a)) < 2}}

\* Single crossings of any shape: 3, 4 or 5 identifiers, repeats allowed.
OddCodes ==
    {<<t>> : t \in {u \in UNION {[1..k -> Arcs] : k \in 3..5} :
                        CanonicalFrom(u, 1, 0) >= 0}}

GeneratedCodes == WellFormedCodes(MaxCross) \cup OddCodes

Inputs ==
    {<<n, KNOT_DEFINITIONS[n]>> : n \in KnotNames} \cup
    {<<"Custom", c>> : c \in GeneratedCodes}

----------------------------------------------------------------------------
\* The quiz variables while a single Knot is studied, and conversely.

QuizIdle ==
    /\ qpc = "idle" /\ score = 0 /\ total = 0
    /\ knot1 = None /\ knot2 = None /\ equivalent = FALSE
    /\ user_input = <<>> /\ console = "none"

\* Knot.__init__, lines 11-13.
Init ==
    /\ \E in \in Inputs : name = in[1] /\ pd_code = in[2] /\ crossings = Len(in[2])
    /\ pc = "build_graph"
    /\ graph = NoGraph
    /\ cross_index = 0
    /\ positions = <<>>
    /\ path = <<>>
    /\ visited = {}
    /\ current = 0
    /\ points = <<>>
    /\ raised = "none"
    /\ QuizIdle

\* build_graph, lines 20-29: the graph of all arcs, without edges.
AddNodes ==
    /\ pc = "build_graph"
    /\ graph' = graph_of_nodes(all_arcs(pd_code))
    /\ cross_index' = 1
    /\ pc' = "add_edges"
    /\ UNCHANGED <<name, pd_code, crossings, positions, path, visited,
                   current, points, raised>>
    /\ UNCHANGED quizVars

\* build_graph, lines 32-43: one iteration of the loop over the crossings, or
\* the return once the loop is over.  An exception leaves the constructor and
\* G with it.
AddCrossingEdges ==
    /\ pc = "add_edges"
    /\ IF cross_index > Len(pd_code)
       THEN pc' = "calculate_positions" /\ UNCHANGED <<graph, cross_index, raised>>
       ELSE IF cross_raises(pd_code[cross_index])
       THEN /\ pc' = "raised" /\ raised' = "IndexError"
            /\ graph' = NoGraph /\ cross_index' = cross_index
       ELSE /\ graph' = [graph EXCEPT
                            !.adj = add_cross_edges(@, pd_code[cross_index], 1)]
            /\ cross_index' = cross_index + 1
            /\ pc' = "add_edges" /\ raised' = raised
    /\ UNCHANGED <<name, pd_code, crossings, positions, path, visited,
                   current, points>>
    /\ UNCHANGED quizVars

\* self.positions = self.calculate_positions()
CalculatePositions ==
    /\ pc = "calculate_positions"
    /\ positions' = calculate_positions(crossings)
    /\ pc' = "trace_path"
    /\ UNCHANGED <<name, pd_code, crossings, graph, cross_index, path, visited, current,
                   points, raised>>
    /\ UNCHANGED quizVars

\* trace_path, lines 56-62.  all_arcs[0] is the first node in the iteration
\* order of a Python set: any node; on an empty graph it raises IndexError.
TraceStart ==
    /\ pc = "trace_path"
    /\ IF graph.nodes = {}
       THEN /\ pc' = "raised" /\ raised' = "IndexError"
            /\ UNCHANGED <<path, visited, current>>
       ELSE \E start_arc \in graph.nodes :
            /\ path' = <<start_arc>>
            /\ visited' = {start_arc}
            /\ current' = start_arc
            /\ pc' = "walk" /\ raised' = raised
    /\ UNCHANGED <<name, pd_code, crossings, graph, cross_index, positions, points>>
    /\ UNCHANGED quizVars

\* An iteration that forgets visited.add(next_arc).
WalkStep_no_mark ==
    /\ pc = "walk"
    /\ LET unv == unvisited(graph, current, visited)
       IN  IF unv = <<>>
           THEN pc' = "close" /\ UNCHANGED <<path, visited, current>>
           ELSE /\ path' = Append(path, Head(unv))
                /\ visited' = visited
                /\ current' = Head(unv)
                /\ pc' = "walk"
    /\ UNCHANGED <<name, pd_code, crossings, graph, cross_index, positions, points, raised>>
    /\ UNCHANGED quizVars

\* One iteration of the while loop, lines 64-74.
WalkStep ==
    /\ pc = "walk"
    /\ LET unv == unvisited(graph, current, visited)
       IN  IF unv = <<>>
           THEN pc' = "close" /\ UNCHANGED <<path, visited, current>>
           ELSE /\ path' = Append(path, Head(unv))
                /\ visited' = visited \cup {Head(unv)}
                /\ current' = Head(unv)
                /\ pc' = "walk"
    /\ UNCHANGED <<name, pd_code, crossings, graph, cross_index, positions, points, raised>>
    /\ UNCHANGED quizVars

\* Lines 76-80, and the assignment to self.path.
ClosePath ==
    /\ pc = "close"
    /\ path' = close_path(graph, path)
    /\ pc' = "constructed"
    /\ UNCHANGED <<name, pd_code, crossings, graph, cross_index, positions, visited,
                   current, points, raised>>
    /\ UNCHANGED quizVars

\* Knot.draw, lines 96-103: the point sequence handed to the backend.
Draw ==
    /\ pc = "constructed"
    /\ points' = draw_points(pd_code, positions, path, 1)
    /\ pc' = "drawn"
    /\ UNCHANGED <<name, pd_code, crossings, graph, cross_index, positions, path, visited,
                   current, raised>>
    /\ UNCHANGED quizVars

----------------------------------------------------------------------------
\* generate_knot_pair

\* knot_types: the keys of KNOT_DEFINITIONS with "Unknot" removed.
knot_types == KnotNames \ {"Unknot"}

\* Two names drawn with replacement.
sample2_with_replacement(S) == S \X S

\* random.sample(knot_types, 2): two names drawn without replacement.
sample2(S) == {s \in S \X S : s[1] # s[2]}

\* The Knot built from a name of the dataset.  The fields derived from the
\* PD code (graph, positions, path) are those of the construction above.
Knot(n, pd) == [name |-> n, pd_code |-> pd, crossings |-> Len(pd)]

\* The outcomes <<knot1, knot2, equivalent>> of generate_knot_pair.
generate_knot_pair ==
    {<<Knot(t, KNOT_DEFINITIONS[t]), Knot(t, KNOT_DEFINITIONS[t]), TRUE>> :
        t \in knot_types}
    \cup
    {<<Knot(s[1], KNOT_DEFINITIONS[s[1]]), Knot(s[2], KNOT_DEFINITIONS[s[2]]),
       FALSE>> : s \in sample2(knot_types)}

----------------------------------------------------------------------------
\* main

\* What the user may type, as sequences of characters.
RawInputs ==
    { <<"y">>, <<"Y">>, <<" ", "y", " ">>, <<"n">>, <<"N", " ">>, <<"q">>,
      <<" ", "Q">>, <<"x">>, <<>>, <<" ">>, <<"y", "n">> }

IsSpace(c) == c = " "

\* str.strip()
RECURSIVE lstrip(_)
lstrip(s) == IF s # <<>> /\ IsSpace(Head(s)) THEN lstrip(Tail(s)) ELSE s

RECURSIVE rstrip(_)
rstrip(s) ==
    IF s # <<>> /\ IsSpace(Last(s)) THEN rstrip(SubSeq(s, 1, Len(s) - 1)) ELSE s

strip(s) == rstrip(lstrip(s))

\* str.lower()
lower_char(c) ==
    CASE c = "Y" -> "y" [] c = "N" -> "n" [] c = "Q" -> "q" [] OTHER -> c

lower(s) == [i \in DOMAIN s |-> lower_char(s[i])]

\* score after the answer of a round was judged (lines 238-243).
score_after(sc, answer, equiv) ==
    LET user_equivalent == (answer = <<"y">>)
        correct == (user_equivalent = equiv)
    IN  IF correct THEN sc + 1 ELSE sc

KnotIdle ==
    /\ pc = "idle" /\ name = "" /\ pd_code = <<>> /\ crossings = 0
    /\ graph = NoGraph /\ cross_index = 0 /\ positions = <<>> /\ path = <<>>
    /\ visited = {}
    /\ current = 0 /\ points = <<>> /\ raised = "none"

\* Lines 210-211.
QuizInit ==
    /\ qpc = "generate"
    /\ score = 0 /\ total = 0
    /\ knot1 = None /\ knot2 = None /\ equivalent = FALSE
    /\ user_input = <<>>
    /\ console = "rules"
    /\ KnotIdle

\* Line 215.
GenerateKnotPair ==
    /\ qpc = "generate"
    /\ \E r \in generate_knot_pair :
          knot1' = r[1] /\ knot2' = r[2] /\ equivalent' = r[3]
    /\ qpc' = "draw"
    /\ UNCHANGED <<score, total, user_input, console>>
    /\ UNCHANGED knotVars

\* Lines 218-225: the figure is created, both knots drawn, the figure shown.
DrawAndShow ==
    /\ qpc = "draw"
    /\ qpc' = "input"
    /\ UNCHANGED <<score, total, knot1, knot2, equivalent, user_input, console>>
    /\ UNCHANGED knotVars

\* Line 228.
ReadInput ==
    /\ qpc = "input"
    /\ \E raw \in RawInputs : user_input' = lower(strip(raw))
    /\ qpc' = "decide"
    /\ UNCHANGED <<score, total, knot1, knot2, equivalent, console>>
    /\ UNCHANGED knotVars

\* Lines 230-231, then 257-259.
Quit ==
    /\ qpc = "decide"
    /\ user_input = <<"q">>
    /\ qpc' = "finished"
    /\ console' = IF total > 0 THEN "final_score" ELSE "end"
    /\ UNCHANGED <<score, total, knot1, knot2, equivalent, user_input>>
    /\ UNCHANGED knotVars

\* Lines 233-235.
InvalidInput ==
    /\ qpc = "decide"
    /\ user_input # <<"q">>
    /\ user_input \notin {<<"y">>, <<"n">>}
    /\ console' = "invalid"
    /\ qpc' = "generate"
    /\ UNCHANGED <<score, total, knot1, knot2, equivalent, user_input>>
    /\ UNCHANGED knotVars

\* Lines 238-251.
CheckAnswer ==
    /\ qpc = "decide"
    /\ user_input # <<"q">>
    /\ user_input \in {<<"y">>, <<"n">>}
    /\ total < MaxRounds
    /\ score' = score_after(score, user_input, equivalent)
    /\ total' = total + 1
    /\ console' = "score"
    /\ qpc' = "generate"
    /\ UNCHANGED <<knot1, knot2, equivalent, user_input>>
    /\ UNCHANGED knotVars

\* A handler that counts the failed round.
CatchException_counting ==
    /\ qpc \in {"generate", "draw", "input"}
    /\ console' = "error"
    /\ qpc' = "generate"
    /\ total' = total + 1
    /\ UNCHANGED <<score, knot1, knot2, equivalent, user_input>>
    /\ UNCHANGED knotVars

\* Lines 252-255: an exception raised by line 215, lines 218-225 or line 228.
CatchException ==
    /\ qpc \in {"generate", "draw", "input"}
    /\ console' = "error"
    /\ qpc' = "generate"
    /\ UNCHANGED <<score, total, knot1, knot2, equivalent, user_input>>
    /\ UNCHANGED knotVars

Next ==
    \/ AddNodes
    \/ AddCrossingEdges
    \/ CalculatePositions
    \/ TraceStart
    \/ WalkStep
    \/ ClosePath
    \/ Draw

Spec == Init /\ [][Next]_vars

\* __init__ and draw run to completion: no step is postponed for ever.
FairSpec == Spec /\ WF_vars(Next)

QuizNext ==
    \/ GenerateKnotPair
    \/ DrawAndShow
    \/ ReadInput
    \/ Quit
    \/ InvalidInput
    \/ CheckAnswer
    \/ CatchException

QuizSpec == QuizInit /\ [][QuizNext]_vars

----------------------------------------------------------------------------
\* Properties.

AllQuads(pd) == \A i \in DOMAIN pd : Len(pd[i]) = 4

WellFormedCode(pd) ==
    Len(pd) >= 1 /\ AllQuads(pd) /\ \A i \in DOMAIN pd : Distinct(pd[i])

\* build_graph has returned.
GraphBuilt == pc \notin {"idle", "build_graph", "add_edges", "raised"}

Walking == pc \in {"walk", "close"}

Returned == pc \in {"constructed", "drawn"}

Occurs(pd, arc) == \E i \in DOMAIN pd : arc \in Range(pd[i])

FirstCrossing(pd, arc) ==
    CHOOSE i \in DOMAIN pd :
        /\ arc \in Range(pd[i])
        /\ \A j \in DOMAIN pd : arc \in Range(pd[j]) => i <= j

\* The six unordered pairs of a crossing (a, b, c, d).
SixPairs(c) ==
    {{c[1], c[2]}, {c[2], c[3]}, {c[3], c[4]}, {c[4], c[1]},
     {c[1], c[3]}, {c[2], c[4]}}

\* C1: on a PD code of at least one crossing, all 4-tuples of pairwise
\* distinct identifiers, the path (while it is walked and once returned)
\* holds no identifier twice, except that the last entry of the returned path
\* may repeat the first; and every consecutive pair, the closing repeat left
\* out, is an edge of the graph.
C1_PathSimpleAlongEdges ==
    ((Walking \/ Returned) /\ WellFormedCode(pd_code)) =>
        /\ \A i \in DOMAIN path : \A j \in DOMAIN path :
              (i < j /\ path[i] = path[j]) =>
                  (Returned /\ i = 1 /\ j = Len(path))
        /\ LET edges == EdgeSet(graph)
           IN  \A i \in 1..(Len(path) - 1) :
                  \/ Returned /\ i + 1 = Len(path) /\ path[i + 1] = path[1]
                  \/ {path[i], path[i + 1]} \in edges

\* A closed path that leaves a node of a connected graph unvisited.
C1_Witness ==
    /\ pc = "constructed" /\ WellFormedCode(pd_code)
    /\ Len(pd_code) = 2
    /\ Len(path) = 5 /\ path[5] = path[1]
    /\ Cardinality(graph.nodes) = 5

\* C2: the greedy walk terminates; before the closing step it has visited at
\* most as many identifiers as the graph has nodes, and at most 4 when the PD
\* code has a single crossing.
C2_WalkTerminatesWithinNodes ==
    /\ [](Walking =>
            /\ Len(path) <= Cardinality(graph.nodes)
            /\ (Len(pd_code) = 1 => Len(path) <= 4))
    /\ ((pc = "walk") ~> (pc = "close"))

C2_Witness ==
    /\ pc = "close" /\ Len(pd_code) = 1 /\ Len(path) = 4
    /\ Cardinality(graph.nodes) = 4

\* C3: on a PD code of 4-tuples the nodes of the built graph are exactly the
\* identifiers that occur in some crossing.
C3_NodesAreTheArcs ==
    (GraphBuilt /\ AllQuads(pd_code)) =>
        /\ \A a \in graph.nodes : Occurs(pd_code, a)
        /\ \A i \in DOMAIN pd_code : \A k \in DOMAIN pd_code[i] :
              pd_code[i][k] \in graph.nodes
        /\ DOMAIN graph.adj = graph.nodes

\* A graph on the identifiers of two crossings that share some.
C3_Witness ==
    /\ pc = "calculate_positions" /\ AllQuads(pd_code) /\ Len(pd_code) = 2
    /\ graph.nodes = 1..5

\* C4: on a PD code of 4-tuples of pairwise distinct identifiers the edges of
\* the built graph are exactly the six pairs of every crossing: six distinct
\* edges per crossing, no self-loop, at most 6 * crossings edges in all.
C4_EdgesAreTheSixPairs ==
    (GraphBuilt /\ WellFormedCode(pd_code)) =>
        LET edges == EdgeSet(graph)
        IN  /\ edges = UNION {SixPairs(pd_code[i]) : i \in DOMAIN pd_code}
            /\ \A i \in DOMAIN pd_code : Cardinality(SixPairs(pd_code[i])) = 6
            /\ \A e \in edges : Cardinality(e) = 2
            /\ Cardinality(edges) <= 6 * Len(pd_code)

\* Two crossings with three common identifiers: 12 pairs, 9 edges.
C4_Witness ==
    /\ pc = "calculate_positions" /\ WellFormedCode(pd_code)
    /\ Len(pd_code) = 2
    /\ Cardinality(EdgeSet(graph)) = 9

\* C5: the returned path is the walked path followed by its first identifier
\* when that identifier and the last one visited are joined by an edge, and
\* the walked path itself otherwise.
C5_ClosedIffAdjacent ==
    Returned =>
        LET n == Cardinality(visited)
            walk == SubSeq(path, 1, n)
        IN  /\ Range(walk) = visited
            /\ walk[n] = current
            /\ IF {path[1], current} \in EdgeSet(graph)
               THEN path = Append(walk, path[1])
               ELSE path = walk

\* A walk that ends on a node not adjacent to its start: the path stays open.
C5_Witness ==
    /\ pc = "constructed"
    /\ Len(path) >= 2
    /\ Last(path) # path[1]
    /\ {path[1], current} \notin EdgeSet(graph)

\* C6: get_arc_position gives the position of the first crossing that holds
\* the arc and None when no crossing holds it; the points of draw are the
\* positions of the path's identifiers in path order, those without a
\* position left out.
C6_FirstCrossingPosition ==
    (pc \in {"trace_path", "drawn"}) =>
        /\ \A arc \in all_arcs(pd_code) \cup (0..(MaxArc + 1)) :
              get_arc_position(pd_code, positions, arc) =
                  IF Occurs(pd_code, arc)
                  THEN positions[FirstCrossing(pd_code, arc)]
                  ELSE None
        /\ pc = "drawn" =>
              LET hasPosition(a) == Occurs(pd_code, a)
                  kept == SelectSeq(path, hasPosition)
              IN  points = [k \in 1..Len(kept) |->
                               positions[FirstCrossing(pd_code, kept[k])]]

\* A drawn path through an arc of both crossings, and an arc of neither.
C6_Witness ==
    /\ pc = "drawn" /\ Len(pd_code) = 2
    /\ \E k \in DOMAIN path :
          /\ path[k] \in Range(pd_code[1]) \cap Range(pd_code[2])
          /\ points[k] = positions[1]
    /\ \E k \in DOMAIN path :
          /\ path[k] \notin Range(pd_code[1])
          /\ points[k] = positions[2]
    /\ get_arc_position(pd_code, positions, 0) = None

\* C7: the pair of generate_knot_pair has equal names and PD codes when the
\* flag is true and distinct names when it is false; no name is "Unknot",
\* both are keys of KNOT_DEFINITIONS; the flag says whether the names agree.
C7_FlagIffSameName ==
    (knot1 # None \/ knot2 # None) =>
        /\ knot1 # None /\ knot2 # None
        /\ equivalent =>
              knot1.name = knot2.name /\ knot1.pd_code = knot2.pd_code
        /\ ~equivalent => knot1.name # knot2.name
        /\ knot1.name # "Unknot" /\ knot2.name # "Unknot"
        /\ knot1.name \in KnotNames /\ knot2.name \in KnotNames
        /\ knot1.pd_code = KNOT_DEFINITIONS[knot1.name]
        /\ knot2.pd_code = KNOT_DEFINITIONS[knot2.name]
        /\ equivalent <=> (knot1.name = knot2.name)

C7_Witness ==
    /\ qpc = "draw" /\ ~equivalent
    /\ knot1.name = "Trefoil" /\ knot2.name = "K10_161"

\* C8: a PD code with a crossing that is not a 4-tuple never gets a graph:
\* the constructor stops with an exception.
C8_MalformedFailsFast ==
    (pc # "idle" /\ \E i \in DOMAIN pd_code : Len(pd_code[i]) # 4) =>
        ~GraphBuilt

\* A step of the loop that ends in the except clause.
ExceptionStep == qpc \in {"generate", "draw", "input"} /\ qpc' = "generate"

====
